---------------------------- MODULE Spec2Model ----------------------------
(***************************************************************************)
(* State-machine model of src/src/audioldm2.py (class AudioLDM2): the DDIM *)
(* noising / inversion / denoising samplers and the two edit pipelines     *)
(* built on them.                                                          *)
(*                                                                         *)
(* Modelling conventions                                                   *)
(*  - The scheduler (self.scheduler) is the only state that outlives a     *)
(*    call: config.steps_offset and timesteps.                             *)
(*  - transfer_strength is a dyadic rational k / StrengthDen, so that the  *)
(*    floating-point product transfer_strength * num_inference_steps of    *)
(*    the code is exact and int() of it is the integer quotient.           *)
(*  - Tensors of the samplers are records of provenance (which operation   *)
(*    produced them, between which noise levels, from which noise          *)
(*    estimate); noise estimates are small integers in exact arithmetic.   *)
(*  - The neural collaborators (VAE, text encoder, UNet, vocoder) are      *)
(*    opaque: their outputs are drawn from small sets, and the UNet and    *)
(*    the progress callback may raise.                                     *)
(*  - An exception is never caught in the source: it ends the entry point  *)
(*    that is running (pc = "raised").                                     *)
(***************************************************************************)
EXTENDS Integers, Sequences, FiniteSets, TLC

\* ------------------------------------------------------------ bounds
\* num_inference_steps ranges over 0 .. MaxSteps and the default, 50
MaxSteps == 3
\* transfer_strength ranges over k / 2^StrengthBits, k in 0 .. 2^StrengthBits + 1
StrengthBits == 2
\* guidance_scale ranges over -1 .. MaxGuidance
MaxGuidance == 2
\* noise estimates returned by the UNet range over 0 .. MaxNoise
MaxNoise == 1
\* callback_steps ranges over 1 .. MaxCallbackSteps
MaxCallbackSteps == 2

\* ------------------------------------------------- program constants
\* num_train_timesteps of the scheduler (also the literal 1000 of ddim_inversion)
T_train == 1000
\* steps_offset of the pretrained scheduler configuration
ConfigStepsOffset == 1
\* default num_inference_steps of the samplers
DefaultSteps == 50
\* a latent is clamped when some |element| exceeds 1e2 ...
ClampTrigger == 100
\* ... to the range [-10.0, 10.0]
ClampBound == 10
\* scheduler.order of DDIMScheduler
SchedulerOrder == 1

StrengthDen == 2 ^ StrengthBits
StepChoices == (0 .. MaxSteps) \cup {DefaultSteps}
StrengthChoices == 0 .. (StrengthDen + 1)
GuidanceChoices == (-1) .. MaxGuidance
NoiseVals == 0 .. MaxNoise
LatentVals == {-(ClampTrigger + 1), ClampBound \div 2, ClampTrigger, ClampTrigger + 1}
MelVals == {0, 1}
\* tensors of the codec are modelled with two elements
Tensors(S) == [1 .. 2 -> S]

\* --------------------------------------------------------- scheduler
\* DDIMScheduler.set_timesteps with timestep_spacing "leading":
\* (arange(0, n) * (T_train // n))[::-1] + steps_offset
SetTimesteps(n, offset) ==
    [j \in 1 .. n |-> (n - j) * (T_train \div n) + offset]

\* DDIMScheduler.__init__: timesteps = arange(0, num_train_timesteps)[::-1]
InitialTimesteps == [j \in 1 .. T_train |-> T_train - j]

\* reversed(seq)
Reversed(s) == [j \in 1 .. Len(s) |-> s[Len(s) + 1 - j]]

\* seq[-m:] of Python: -0 is 0, so m = 0 selects the whole sequence, and a
\* slice start before the beginning is clamped
LastEntries(s, m) ==
    IF m = 0 \/ m >= Len(s) THEN s ELSE SubSeq(s, Len(s) - m + 1, Len(s))

\* seq[-m] of Python is defined (no IndexError) iff ...
NegIndexOk(s, m) == IF m = 0 THEN Len(s) >= 1 ELSE m <= Len(s)

\* (a variant that takes the last element whatever m is)
NegIndexLast(s, m) == s[Len(s)]

\* ... and then is this element (seq[-0] is seq[0], the first)
NegIndex(s, m) == IF m = 0 THEN s[1] ELSE s[Len(s) - m + 1]

\* int(transfer_strength * num_inference_steps), transfer_strength = k / StrengthDen >= 0
TEnc(k, n) == (k * n) \div StrengthDen

\* the noise level (index of alphas_cumprod) DDIMScheduler.step moves to from t:
\* prev_timestep = t - T_train // n, and final_alpha_cumprod = alphas_cumprod[0]
\* (set_alpha_to_one: False) when prev_timestep < 0
PrevLevel(t, n) ==
    IF t - (T_train \div n) >= 0 THEN t - (T_train \div n) ELSE 0

\* current_t of ddim_inversion: max(0, t - 1000 // num_inference_steps)
CurrentT(t, n) ==
    IF t - (T_train \div n) > 0 THEN t - (T_train \div n) ELSE 0

\* (a variant with the two halves of the batch taken in the other order)
GuidedNoiseSwapped(uncond, text, g) == text + g * (uncond - text)

\* classifier-free guidance: uncond + guidance_scale * (text - uncond)
GuidedNoise(uncond, text, g) == uncond + g * (text - uncond)

\* do_cfg of ddim_denoising
DoCfg(g) == g > 1

\* ------------------------------------------------------------ codec
Abs(x) == IF x < 0 THEN -x ELSE x
Min2(a, b) == IF a < b THEN a ELSE b
Max2(a, b) == IF a > b THEN a ELSE b

\* (a variant that clamps only the elements whose magnitude exceeds the trigger)
ClampLatentElementwise(z) ==
    [j \in DOMAIN z |-> IF Abs(z[j]) > ClampTrigger
                        THEN Max2(-ClampBound, Min2(ClampBound, z[j]))
                        ELSE z[j]]

\* if torch.max(torch.abs(z)) > 1e2: z = torch.clamp(z, -10.0, 10.0)
ClampLatent(z) ==
    IF \E j \in DOMAIN z : Abs(z[j]) > ClampTrigger
    THEN [j \in DOMAIN z |-> Max2(-ClampBound, Min2(ClampBound, z[j]))]
    ELSE z

\* torch.maximum(torch.minimum(mel_spectrogram, mel), mel)
ClipMel(decoded, original) ==
    [j \in DOMAIN decoded |-> Max2(Min2(decoded[j], original[j]), original[j])]

\* pipe.encode_prompt(prompt=[p] * batch_size, do_classifier_free_guidance=True):
\* the embeddings of prompt p, negative and positive halves concatenated
EncodePrompt(p) == [prompt |-> p, doubled |-> TRUE]

\* ------------------------------------------------------------ values
NoTensor == << >>
NoBundle == [prompt |-> "none", doubled |-> FALSE]
CallerBundle == [prompt |-> "caller", doubled |-> FALSE]
Latent(op, from, to, noise) == [op |-> op, from |-> from, to |-> to, noise |-> noise]
NoLatent == Latent("none", -1, -1, -1)
NoCall == [stage |-> "none", t |-> -1, doubled |-> FALSE, bundle |-> NoBundle,
           uncond |-> -1, text |-> -1, noise_pred |-> -1]
NoArgs == [num_inference_steps |-> 0, transfer_strength |-> 0, guidance_scale |-> 0,
           do_cfg |-> FALSE, callback |-> FALSE, callback_steps |-> 1]
NoResult == [kind |-> "none", error |-> "none", latents |-> NoLatent, mel |-> NoTensor]
NoCallback == [step_idx |-> -1, t |-> -1, latents |-> NoLatent]
NoClip == [clipping |-> FALSE, return_type |-> "none"]

VARIABLES
    evalmode,          \* self.evalmode
    steps_offset,      \* self.scheduler.config.steps_offset
    timesteps,         \* self.scheduler.timesteps
    pc,                \* position of the running entry point
    entry,             \* the entry point that was called
    args,              \* its arguments
    old_offset,        \* old_offset of ddim_noising / ddim_denoising (-1: unset)
    t_enc,             \* t_enc / start_timestep of the running sampler
    used_timesteps,    \* used_timesteps of ddim_denoising, timesteps of ddim_inversion
    i,                 \* loop index of the running sampler
    latents,           \* latents of the running sampler
    encoded,           \* encode_audios(mel), before the clamp
    init_latent_x,     \* init_latent_x of the edit pipelines
    ori_bundle,        \* ori_prompt_embeds, ori_attention_mask, ori_generated_prompt_embeds
    bundle,            \* prompt_embeds, attention_mask, generated_prompt_embeds
    embeds,            \* the conditioning arguments of the running sampler
    unet_call,         \* the last call of self.unet and what was made of it
    stages,            \* the stages the pipeline has entered, in order
    inv_updates,       \* the updates ddim_inversion has applied
    den_updates,       \* the updates ddim_denoising has applied
    callback_log,      \* the (step_idx, t) the callback was invoked with
    callback_last,     \* the arguments of the last callback invocation
    mel,               \* the input mel (its elements are first read by the clipping)
    decoded,           \* decode_latents(edited_latents)
    clip,              \* clipping and return_type (first read after decoding)
    result             \* what the entry point returned or raised

sched == <<steps_offset, timesteps>>
sampler == <<old_offset, t_enc, used_timesteps, i, latents, embeds, unet_call>>
logs == <<inv_updates, den_updates, callback_log, callback_last>>
pipe == <<encoded, init_latent_x, ori_bundle, bundle, stages>>
tail == <<mel, decoded, clip>>
vars == <<evalmode, pc, entry, args, result, sched, sampler, logs, pipe, tail>>

Init ==
    /\ evalmode = TRUE
    /\ steps_offset = ConfigStepsOffset
    /\ timesteps = InitialTimesteps
    /\ pc = "idle"
    /\ entry = "none"
    /\ args = NoArgs
    /\ old_offset = -1
    /\ t_enc = -1
    /\ used_timesteps = << >>
    /\ i = 0
    /\ latents = NoLatent
    /\ encoded = NoTensor
    /\ init_latent_x = NoTensor
    /\ ori_bundle = NoBundle
    /\ bundle = NoBundle
    /\ embeds = NoBundle
    /\ unet_call = NoCall
    /\ stages = << >>
    /\ inv_updates = << >>
    /\ den_updates = << >>
    /\ callback_log = << >>
    /\ callback_last = NoCallback
    /\ mel = NoTensor
    /\ decoded = NoTensor
    /\ clip = NoClip
    /\ result = NoResult

\* init_latent_x has been passed to the noising stage and is not read again:
\* the model forgets the elements of the encoder's output
Passed ==
    /\ encoded' = NoTensor
    /\ init_latent_x' = NoTensor

\* the locals of a sampler that has returned to the pipeline are gone
SamplerLeft ==
    /\ old_offset' = -1
    /\ t_enc' = -1
    /\ used_timesteps' = << >>
    /\ i' = 0
    /\ embeds' = NoBundle
    /\ unet_call' = NoCall

\* an uncaught exception ends the entry point
Raise(err) ==
    /\ pc' = "raised"
    /\ result' = [NoResult EXCEPT !.kind = "raised", !.error = err]


\* the arguments an edit pipeline passes on (callback and callback_steps are
\* left at their defaults, do_cfg=True goes to ddim_inversion)
PipelineArgs(n, k, g) ==
    [num_inference_steps |-> n, transfer_strength |-> k, guidance_scale |-> g,
     do_cfg |-> TRUE, callback |-> FALSE, callback_steps |-> 1]

\* -------------------------------------------------- model state (methods)
eval_ ==
    /\ pc = "idle"
    /\ evalmode' = TRUE
    /\ UNCHANGED <<pc, entry, args, result, sched, sampler, logs, pipe, tail>>

train_ ==
    /\ pc = "idle"
    /\ evalmode' = FALSE
    /\ UNCHANGED <<pc, entry, args, result, sched, sampler, logs, pipe, tail>>

\* ------------------------------------------------------ edit pipelines
\* edit_audio_with_ddim / edit_audio_with_ddim_inversion_sampling, from the
\* entry to the conditioning: the two assertions, encode_audios, the clamp of
\* the latent, encode_prompt (of original_text first, in the inversion variant)
EditBegin(e, a, mel_dim, z) ==
    /\ pc = "idle"
    /\ entry' = e
    /\ args' = a
    /\ IF ~evalmode \/ mel_dim # 4
       THEN /\ Raise("AssertionError")
            /\ UNCHANGED pipe
       ELSE /\ encoded' = z
            /\ init_latent_x' = ClampLatent(z)
            /\ ori_bundle' = IF e = "edit_audio_with_ddim_inversion_sampling"
                             THEN EncodePrompt("original_text") ELSE NoBundle
            /\ bundle' = EncodePrompt("text")
            /\ stages' = <<"encode", "conditioning">>
            /\ pc' = IF e = "edit_audio_with_ddim" THEN "noising" ELSE "inversion"
            /\ UNCHANGED result
    /\ UNCHANGED <<evalmode, sched, sampler, logs, tail>>

\* ddim_noising, whole: the offset override, set_timesteps, t_enc, the restore,
\* one randn_like (its sample is noise) and one add_noise of it to the clone of
\* the input, at all_timesteps[-t_enc]
NoisingCall(noise) ==
    /\ pc = "noising"
    /\ LET n == args.num_inference_steps
           te == TEnc(args.transfer_strength, n)
           all_timesteps == SetTimesteps(n, 0)
       IN  /\ old_offset' = steps_offset
           /\ stages' = Append(stages, "noising")
           /\ IF n = 0
              THEN \* set_timesteps: T_train // 0, with the offset overridden
                   /\ steps_offset' = 0
                   /\ Raise("ZeroDivisionError")
                   /\ UNCHANGED <<timesteps, t_enc, used_timesteps, latents>>
              ELSE /\ timesteps' = all_timesteps
                   /\ t_enc' = te
                   /\ used_timesteps' = LastEntries(all_timesteps, te)
                   /\ steps_offset' = old_offset'
                   /\ IF NegIndexOk(all_timesteps, te)
                      THEN /\ latents' = Latent("add_noise", -1, NegIndex(all_timesteps, te), noise)
                           /\ pc' = "call_denoising"
                           /\ UNCHANGED result
                      ELSE /\ Raise("IndexError")
                           /\ UNCHANGED latents
    /\ UNCHANGED <<evalmode, entry, args, i, embeds, unet_call, logs, tail>>
    /\ UNCHANGED <<encoded, init_latent_x, ori_bundle, bundle>>

\* ------------------------------------------------------- ddim_inversion
\* (a variant passing the target text's conditioning)
InversionEmbedsOfTarget == IF entry = "ddim_inversion" THEN CallerBundle ELSE bundle

\* the conditioning edit_audio_with_ddim_inversion_sampling passes to
\* ddim_inversion (a direct caller passes its own)
InversionEmbeds == IF entry = "ddim_inversion" THEN CallerBundle ELSE ori_bundle

\* a direct call of ddim_inversion
CallInversion(a) ==
    /\ pc = "idle"
    /\ entry' = "ddim_inversion"
    /\ args' = a
    /\ pc' = "inversion"
    /\ UNCHANGED <<evalmode, result, sched, sampler, logs, pipe, tail>>

\* ddim_inversion up to the loop: start_timestep, the clone, set_timesteps
\* (with the scheduler's offset as it is), reversed(timesteps)
InversionBegin ==
    /\ pc = "inversion"
    /\ LET n == args.num_inference_steps
       IN  /\ t_enc' = TEnc(args.transfer_strength, n)
           /\ latents' = Latent("clone", -1, -1, -1)
           /\ embeds' = InversionEmbeds
           /\ stages' = Append(stages, "inversion")
           /\ IF n = 0
              THEN /\ Raise("ZeroDivisionError")
                   /\ UNCHANGED <<timesteps, used_timesteps, i>>
              ELSE /\ timesteps' = SetTimesteps(n, steps_offset)
                   /\ used_timesteps' = Reversed(timesteps')
                   /\ i' = 1
                   /\ pc' = "inversion_loop"
                   /\ UNCHANGED result
    /\ Passed
    /\ UNCHANGED <<evalmode, entry, args, steps_offset, old_offset, unet_call, logs, tail>>
    /\ UNCHANGED <<ori_bundle, bundle>>

\* iteration i of `for i in range(1, num_inference_steps)` runs its body
InversionBody ==
    /\ pc = "inversion_loop"
    /\ i < args.num_inference_steps
    /\ i < t_enc

\* one iteration of the loop of ddim_inversion
InversionStep(uncond, text) ==
    /\ InversionBody
    /\ LET n == args.num_inference_steps
           t == used_timesteps[i + 1]
           noise_pred == IF args.do_cfg
                         THEN GuidedNoise(uncond, text, args.guidance_scale)
                         ELSE text
           current_t == CurrentT(t, n)
           next_t == t
       IN  /\ unet_call' = [stage |-> "inversion", t |-> t, doubled |-> args.do_cfg,
                            bundle |-> embeds, uncond |-> uncond, text |-> text,
                            noise_pred |-> noise_pred]
           /\ IF next_t > T_train - 1
              THEN \* alphas_cumprod has T_train entries
                   /\ Raise("IndexError")
                   /\ UNCHANGED <<latents, inv_updates, i>>
              ELSE /\ latents' = Latent("invert", current_t, next_t, noise_pred)
                   /\ inv_updates' = Append(inv_updates,
                                        [t |-> t, from |-> current_t, to |-> next_t])
                   /\ i' = i + 1
                   /\ UNCHANGED <<pc, result>>
    /\ UNCHANGED <<evalmode, entry, args, sched, old_offset, t_enc, used_timesteps, embeds>>
    /\ UNCHANGED <<den_updates, callback_log, callback_last, pipe, tail>>

\* the noise predictor raises in an iteration of ddim_inversion
InversionUnetRaises ==
    /\ InversionBody
    /\ Raise("PredictorError")
    /\ UNCHANGED <<evalmode, entry, args, sched, sampler, logs, pipe, tail>>

\* the remaining iterations `continue`; ddim_inversion returns latents
InversionReturn ==
    /\ pc = "inversion_loop"
    /\ ~InversionBody
    /\ IF entry = "ddim_inversion"
       THEN /\ pc' = "returned"
            /\ result' = [NoResult EXCEPT !.kind = "returned", !.latents = latents]
            /\ UNCHANGED <<old_offset, t_enc, used_timesteps, i, embeds, unet_call>>
       ELSE /\ pc' = "call_denoising"
            /\ SamplerLeft
            /\ UNCHANGED result
    /\ UNCHANGED <<evalmode, entry, args, sched, latents, logs, pipe, tail>>


\* ------------------------------------------------------- ddim_denoising
\* the conditioning the edit pipelines pass to ddim_denoising (a direct
\* caller passes its own)
DenoisingEmbeds == IF entry = "ddim_denoising" THEN CallerBundle ELSE bundle

\* a direct call of ddim_denoising, the only way to pass a callback
CallDenoising(a) ==
    /\ pc = "idle"
    /\ entry' = "ddim_denoising"
    /\ args' = a
    /\ latents' = Latent("input", -1, -1, -1)
    /\ pc' = "call_denoising"
    /\ UNCHANGED <<evalmode, result, sched, logs, pipe, tail>>
    /\ UNCHANGED <<old_offset, t_enc, used_timesteps, i, embeds, unet_call>>

\* ddim_denoising up to the loop: do_cfg, the offset override, set_timesteps,
\* t_enc, used_timesteps
DenoisingBegin ==
    /\ pc = "call_denoising"
    /\ LET n == args.num_inference_steps
           te == TEnc(args.transfer_strength, n)
       IN  /\ old_offset' = steps_offset
           /\ steps_offset' = 0
           /\ embeds' = DenoisingEmbeds
           /\ stages' = Append(stages, "denoising")
           /\ IF n = 0
              THEN /\ Raise("ZeroDivisionError")
                   /\ UNCHANGED <<timesteps, t_enc, used_timesteps, i>>
              ELSE /\ timesteps' = SetTimesteps(n, 0)
                   /\ t_enc' = te
                   /\ used_timesteps' = LastEntries(timesteps', te)
                   /\ i' = 0
                   /\ pc' = "denoising_loop"
                   /\ UNCHANGED result
    /\ Passed
    /\ UNCHANGED <<evalmode, entry, args, latents, unet_call, logs, tail>>
    /\ UNCHANGED <<ori_bundle, bundle>>

\* the loop of ddim_denoising has an iteration left
DenoisingBody ==
    /\ pc = "denoising_loop"
    /\ i < Len(used_timesteps)

\* num_warmup_steps = len(used_timesteps) - t_enc * self.scheduler.order
NumWarmupSteps == Len(used_timesteps) - t_enc * SchedulerOrder

\* iteration i reaches the callback and invokes it
CallbackDue ==
    /\ \/ i = Len(used_timesteps) - 1
       \/ /\ (i + 1) > NumWarmupSteps
          /\ (i + 1) % SchedulerOrder = 0
    /\ args.callback
    /\ i % args.callback_steps = 0

\* what iteration i computes before the callback: the UNet call on the
\* (doubled, if do_cfg) latent, the guidance, scheduler.step
DenoisingUpdate(uncond, text) ==
    LET n == args.num_inference_steps
        t == used_timesteps[i + 1]
        do_cfg == DoCfg(args.guidance_scale)
        noise_pred == IF do_cfg
                      THEN GuidedNoise(uncond, text, args.guidance_scale)
                      ELSE text
    IN  /\ unet_call' = [stage |-> "denoising", t |-> t, doubled |-> do_cfg,
                         bundle |-> embeds, uncond |-> uncond, text |-> text,
                         noise_pred |-> noise_pred]
        /\ latents' = Latent("step", t, PrevLevel(t, n), noise_pred)
        /\ den_updates' = Append(den_updates,
                             [t |-> t, from |-> t, to |-> PrevLevel(t, n)])
        /\ IF CallbackDue
           THEN /\ callback_log' = Append(callback_log, <<i \div SchedulerOrder, t>>)
                /\ callback_last' = [step_idx |-> i \div SchedulerOrder, t |-> t,
                                     latents |-> latents']
           ELSE UNCHANGED <<callback_log, callback_last>>

\* one iteration of the loop of ddim_denoising; its last statement restores
\* the offset
DenoisingStep(uncond, text) ==
    /\ DenoisingBody
    /\ DenoisingUpdate(uncond, text)
    /\ steps_offset' = old_offset
    /\ i' = i + 1
    /\ UNCHANGED <<evalmode, pc, entry, args, result, timesteps, old_offset, t_enc>>
    /\ UNCHANGED <<used_timesteps, embeds, inv_updates, pipe, tail>>

\* the noise predictor raises in an iteration of ddim_denoising
DenoisingUnetRaises ==
    /\ DenoisingBody
    /\ Raise("PredictorError")
    /\ UNCHANGED <<evalmode, entry, args, sched, sampler, logs, pipe, tail>>

\* the callback raises in an iteration of ddim_denoising
DenoisingCallbackRaises(uncond, text) ==
    /\ DenoisingBody
    /\ CallbackDue
    /\ DenoisingUpdate(uncond, text)
    /\ Raise("CallbackError")
    /\ UNCHANGED <<evalmode, entry, args, sched, old_offset, t_enc, used_timesteps, i>>
    /\ UNCHANGED <<embeds, inv_updates, pipe, tail>>

\* the loop is over: ddim_denoising returns latents
DenoisingReturn ==
    /\ pc = "denoising_loop"
    /\ ~DenoisingBody
    /\ IF entry = "ddim_denoising"
       THEN /\ pc' = "returned"
            /\ result' = [NoResult EXCEPT !.kind = "returned", !.latents = latents]
            /\ UNCHANGED <<old_offset, t_enc, used_timesteps, i, embeds, unet_call>>
       ELSE /\ pc' = "decode"
            /\ SamplerLeft
            /\ UNCHANGED result
    /\ UNCHANGED <<evalmode, entry, args, sched, latents, logs, pipe, tail>>

\* ------------------------------------------------- the pipelines' tail
\* decode_latents, the optional clipping, the return of the mel or of the
\* waveform made of it
Decode(m, d, clipping, return_type) ==
    /\ pc = "decode"
    /\ mel' = m
    /\ decoded' = d
    /\ clip' = [clipping |-> clipping, return_type |-> return_type]
    /\ stages' = Append(stages, "decode")
    /\ pc' = "returned"
    /\ result' = [NoResult EXCEPT !.kind = "returned", !.latents = latents,
                                  !.mel = IF clipping THEN ClipMel(d, m) ELSE d]
    /\ UNCHANGED <<evalmode, entry, args, sched, sampler, logs>>
    /\ UNCHANGED <<encoded, init_latent_x, ori_bundle, bundle>>

\* the entry point is over: its locals are gone, the scheduler stays
Finish ==
    /\ pc \in {"returned", "raised"}
    /\ pc' = "idle"
    /\ entry' = "none"
    /\ args' = NoArgs
    /\ result' = NoResult
    /\ old_offset' = -1
    /\ t_enc' = -1
    /\ used_timesteps' = << >>
    /\ i' = 0
    /\ latents' = NoLatent
    /\ embeds' = NoBundle
    /\ unet_call' = NoCall
    /\ inv_updates' = << >>
    /\ den_updates' = << >>
    /\ callback_log' = << >>
    /\ callback_last' = NoCallback
    /\ encoded' = NoTensor
    /\ init_latent_x' = NoTensor
    /\ ori_bundle' = NoBundle
    /\ bundle' = NoBundle
    /\ stages' = << >>
    /\ mel' = NoTensor
    /\ decoded' = NoTensor
    /\ clip' = NoClip
    /\ UNCHANGED <<evalmode, sched>>

\* ------------------------------------------------------------- inputs
EditEntries == {"edit_audio_with_ddim", "edit_audio_with_ddim_inversion_sampling"}

EditArgs ==
    {PipelineArgs(n, k, g) : n \in StepChoices, k \in StrengthChoices, g \in GuidanceChoices}

DenoisingArgs ==
    {[a EXCEPT !.callback = TRUE, !.callback_steps = c] :
        a \in EditArgs, c \in 1 .. MaxCallbackSteps}
    \cup EditArgs

InversionArgs ==
    {[a EXCEPT !.do_cfg = b] : a \in EditArgs, b \in BOOLEAN}

\* the UNet's output: two halves for a doubled batch, one estimate otherwise
Unconds(doubled) == IF doubled THEN NoiseVals ELSE {-1}

\* the calls a client makes and the steps of the running entry point; the
\* inputs of a call and the outputs of the collaborators are drawn here
edit_audio ==
    /\ pc = "idle"
    /\ \E e \in EditEntries, a \in EditArgs, mel_dim \in {3, 4}, z \in Tensors(LatentVals) :
          EditBegin(e, a, mel_dim, z)

ddim_noising ==
    /\ pc = "noising"
    /\ \E noise \in NoiseVals : NoisingCall(noise)

call_ddim_inversion ==
    /\ pc = "idle"
    /\ \E a \in InversionArgs : CallInversion(a)

call_ddim_denoising ==
    /\ pc = "idle"
    /\ \E a \in DenoisingArgs : CallDenoising(a)

inversion_step ==
    /\ InversionBody
    /\ \E u \in Unconds(args.do_cfg), c \in NoiseVals : InversionStep(u, c)

denoising_step ==
    /\ DenoisingBody
    /\ \E u \in Unconds(DoCfg(args.guidance_scale)), c \in NoiseVals : DenoisingStep(u, c)

denoising_callback_raises ==
    /\ DenoisingBody
    /\ \E u \in Unconds(DoCfg(args.guidance_scale)), c \in NoiseVals :
          DenoisingCallbackRaises(u, c)

decode_and_return ==
    /\ pc = "decode"
    /\ \E m \in Tensors(MelVals), d \in Tensors(MelVals), clipping \in BOOLEAN,
          return_type \in {"mel", "ts"} : Decode(m, d, clipping, return_type)

Next ==
    \/ eval_
    \/ train_
    \/ edit_audio
    \/ ddim_noising
    \/ call_ddim_inversion
    \/ InversionBegin
    \/ inversion_step
    \/ InversionUnetRaises
    \/ InversionReturn
    \/ call_ddim_denoising
    \/ DenoisingBegin
    \/ denoising_step
    \/ DenoisingUnetRaises
    \/ denoising_callback_raises
    \/ DenoisingReturn
    \/ decode_and_return
    \/ Finish

Spec == Init /\ [][Next]_vars

\* ------------------------------------- ddim_inversion over the full schedule
\* num_inference_steps as large as the training schedule, for direct calls of
\* ddim_inversion on the freshly constructed model
FullScheduleArgs ==
    {[a EXCEPT !.num_inference_steps = T_train] : a \in InversionArgs}

call_ddim_inversion_full ==
    /\ pc = "idle"
    /\ \E a \in FullScheduleArgs : CallInversion(a)

InversionNext ==
    \/ call_ddim_inversion_full
    \/ InversionBegin
    \/ inversion_step
    \/ InversionReturn
    \/ Finish

InversionSpec == Init /\ [][InversionNext]_vars

\* =============================================================== claims
\* definitions shared by the claims
Steps == args.num_inference_steps
ValidStrength == args.transfer_strength \in 1 .. StrengthDen
ValidSteps == Steps >= 1
\* a negative guidance_scale, a strength outside (0,1] or num_steps < 1
InvalidConfig ==
    \/ args.guidance_scale < 0
    \/ ~ValidStrength
    \/ ~ValidSteps
Range(s) == {s[j] : j \in DOMAIN s}
StrictlyDecreasing(s) == \A j \in 1 .. Len(s) - 1 : s[j] > s[j + 1]
IsPrefix(s, r) == Len(s) <= Len(r) /\ \A j \in 1 .. Len(s) : s[j] = r[j]
Visited(updates) == [j \in 1 .. Len(updates) |-> updates[j].t]
\* the updates that move the latent to another noise level
Moves(updates) == SelectSeq(updates, LAMBDA u : u.from # u.to)
\* round(k * n / StrengthDen) of Python: halves go to the even neighbour
PyRound(k, n) ==
    LET q == (k * n) \div StrengthDen
        r == (k * n) % StrengthDen
    IN  IF 2 * r < StrengthDen THEN q
        ELSE IF 2 * r > StrengthDen THEN q + 1
        ELSE IF q % 2 = 0 THEN q ELSE q + 1

\* C1: when a call that ran ddim_noising or ddim_denoising has ended, by a
\* return or by an exception of the noise predictor or of the callback,
\* steps_offset has the value it had before the call (stated for the calls
\* with a valid configuration).
C1_OffsetRestoredOnEveryExit ==
    (/\ pc \in {"returned", "raised"}
     /\ ~InvalidConfig
     /\ old_offset # -1
     /\ result.error \in {"none", "PredictorError", "CallbackError"})
    => steps_offset = old_offset

\* C2: for a strength in (0,1] and num_inference_steps >= 1 the samplers'
\* t_enc is round(strength * num_inference_steps), and 0 < t_enc <= num_inference_steps.
C2_TEncIsRoundedAndPositive ==
    (t_enc # -1 /\ ~InvalidConfig)
    => /\ t_enc = PyRound(args.transfer_strength, Steps)
       /\ 0 < t_enc
       /\ t_enc <= Steps

\* C3: for a strength in (0,1] and num_steps >= 1, when the loop of
\* ddim_denoising is over it has made exactly t_enc updates, over the last
\* t_enc entries of the inference subsequence in decreasing order, and its
\* latent is the one the final step produced.
C3_DenoisingMakesTEncUpdates ==
    (/\ pc = "denoising_loop"
     /\ ~DenoisingBody
     /\ ~InvalidConfig)
    => /\ Len(den_updates) = t_enc
       /\ Visited(den_updates) = SubSeq(timesteps, Steps - t_enc + 1, Steps)
       /\ StrictlyDecreasing(Visited(den_updates))
       /\ latents = Latent("step", timesteps[Steps], PrevLevel(timesteps[Steps], Steps),
                           unet_call.noise_pred)

\* C4: in the inversion pipeline every timestep ddim_inversion visited is an
\* entry of the subsequence ddim_denoising then configures for the same
\* num_inference_steps, and inversion visited them in increasing order.
C4_InversionVisitsDenoisingSubsequence ==
    (/\ pc = "denoising_loop"
     /\ entry = "edit_audio_with_ddim_inversion_sampling"
     /\ ~InvalidConfig)
    => /\ \A j \in 1 .. Len(inv_updates) : inv_updates[j].t \in Range(timesteps)
       /\ StrictlyDecreasing(Reversed(Visited(inv_updates)))

\* C5: the subsequence ddim_noising, ddim_denoising and ddim_inversion
\* configure has num_inference_steps entries, strictly decreasing, all in
\* [0, T_train - 1]; for 50 steps it is 980, 960, ..., 20, 0.
C5_SubsequenceShape ==
    (/\ \/ pc \in {"inversion_loop", "denoising_loop"}
        \/ pc = "call_denoising" /\ entry = "edit_audio_with_ddim"
     /\ ~InvalidConfig)
    => /\ Len(timesteps) = Steps
       /\ StrictlyDecreasing(timesteps)
       /\ \A j \in 1 .. Len(timesteps) : timesteps[j] \in 0 .. (T_train - 1)
       /\ Steps = DefaultSteps
            => timesteps = [j \in 1 .. DefaultSteps |-> T_train - 20 * j]

\* C6: with 10 or more steps, a strength in (0,1] and guidance_scale 1,
\* when ddim_denoising has run after ddim_inversion its updates are those of
\* the inversion undone: as many, over the same pairs of noise levels, in
\* reverse order (updates that stay at one noise level are left out of the
\* comparison, which only makes the statement weaker).
C6_DenoisingUndoesInversion ==
    (/\ pc = "decode"
     /\ entry = "edit_audio_with_ddim_inversion_sampling"
     /\ Steps >= 10
     /\ ValidStrength
     /\ args.guidance_scale = 1)
    => LET den == Moves(den_updates)
           inv == Moves(inv_updates)
       IN  /\ Len(den) = Len(inv)
           /\ \A j \in 1 .. Len(den) :
                 /\ den[j].from = inv[Len(inv) + 1 - j].to
                 /\ den[j].to = inv[Len(inv) + 1 - j].from

\* C7: with guidance_scale 1 every update uses the conditional noise
\* estimate alone, as a run without guidance does: ddim_denoising does not
\* double the batch, and the guided combination of ddim_inversion is the
\* conditional estimate.
C7_UnitGuidanceIsConditional ==
    (args.guidance_scale = 1 /\ unet_call.stage # "none")
    => /\ unet_call.noise_pred = unet_call.text
       /\ unet_call.stage = "denoising" => ~unet_call.doubled
       /\ latents.op \in {"step", "invert"} => latents.noise = unet_call.text

\* a guided inversion update at guidance_scale 1 whose two estimates differ
C7_Witness ==
    /\ args.guidance_scale = 1
    /\ unet_call.stage = "inversion"
    /\ unet_call.doubled
    /\ unet_call.uncond # unet_call.text
    /\ latents.op = "invert"

\* C8: a call with an invalid configuration fails at its entry with a
\* configuration error; in particular it never gets as far as returning a
\* result (the part of the claim stated here).
C8_InvalidConfigRejectedAtEntry ==
    (entry # "none" /\ InvalidConfig) => pc # "returned"

\* C9: with clipping requested an edit entry point returns the element-wise
\* maximum of the decoded mel and the input mel.
C9_ClippingIsFloorAtOriginal ==
    (pc = "returned" /\ entry \in EditEntries /\ clip.clipping /\ ~InvalidConfig)
    => result.mel = [j \in DOMAIN decoded |-> Max2(decoded[j], mel[j])]

\* C10: in edit_audio_with_ddim_inversion_sampling the stages run in the
\* order encode, conditioning, inversion, denoising, decode; the noise
\* predictor is called only in the inversion stage, with the bundle of
\* original_text, and in the denoising stage, with the bundle of text; and
\* both bundles stay as encode_prompt made them until the pipeline ends.
C10_StagesAndConditioning ==
    entry = "edit_audio_with_ddim_inversion_sampling"
    => /\ IsPrefix(stages, <<"encode", "conditioning", "inversion", "denoising", "decode">>)
       /\ unet_call.stage # "none" => unet_call.stage = stages[Len(stages)]
       /\ unet_call.stage = "inversion" => unet_call.bundle = EncodePrompt("original_text")
       /\ unet_call.stage = "denoising" => unet_call.bundle = EncodePrompt("text")
       /\ stages # << >>
            => /\ ori_bundle = EncodePrompt("original_text")
               /\ bundle = EncodePrompt("text")

\* the denoising stage calls the noise predictor after an inversion stage
\* that called it too
C10_Witness ==
    /\ entry = "edit_audio_with_ddim_inversion_sampling"
    /\ unet_call.stage = "denoising"
    /\ Len(inv_updates) >= 1
    /\ Len(den_updates) >= 1

\* C11: in both edit pipelines, for a strength in (0,1] and num_steps >= 1,
\* the first timestep ddim_denoising is about to step from is the noise level
\* the noising stage left the latent at: the timestep ddim_noising passed to
\* add_noise, or the target timestep of the last update of ddim_inversion.
C11_DenoisingStartsWhereNoisingEnded ==
    (/\ pc = "denoising_loop"
     /\ i = 0
     /\ DenoisingBody
     /\ entry \in EditEntries
     /\ ~InvalidConfig
     /\ latents.op \in {"add_noise", "invert"})
    => latents.to = used_timesteps[1]

\* C12: in every noise-predictor call an edit pipeline makes (guidance_scale
\* >= 0, a valid configuration), the latent input is doubled exactly when the
\* conditioning embeddings passed with it are, and both are doubled when
\* guidance applies (guidance_scale > 1).
C12_LatentAndConditioningBatchAgree ==
    (/\ entry \in EditEntries
     /\ unet_call.stage # "none"
     /\ ~InvalidConfig)
    => /\ unet_call.doubled = unet_call.bundle.doubled
       /\ args.guidance_scale > 1 => unet_call.doubled

\* the invocations a callback at cadence cs receives over the iterations made
\* so far: (i, t) of every iteration whose index i is a multiple of cs
CadenceLog(updates, cs) ==
    SelectSeq([j \in 1 .. Len(updates) |-> <<j - 1, updates[j].t>>],
              LAMBDA p : p[1] % cs = 0)

\* C13: in ddim_denoising (valid configuration), after every iteration the
\* callback, if supplied, has been invoked on exactly the iterations whose
\* index is a multiple of callback_steps, with (i, t of that iteration), and
\* an invocation in the iteration just made received the latent it produced;
\* without a callback nothing is invoked.
C13_CallbackAtCadence ==
    (/\ entry = "ddim_denoising"
     /\ pc = "denoising_loop"
     /\ ~InvalidConfig)
    => /\ callback_log = IF args.callback
                         THEN CadenceLog(den_updates, args.callback_steps)
                         ELSE << >>
       /\ (args.callback /\ i >= 1 /\ (i - 1) % args.callback_steps = 0)
            => callback_last = [step_idx |-> i - 1, t |-> den_updates[i].t,
                                latents |-> latents]

\* C14: in every update of ddim_inversion (strength in (0,1], 1 <= num_steps
\* <= T_train) at visited timestep t the latent goes from the noise level
\* max(0, t - T_train \div num_steps) to the noise level t, and both indices
\* of alphas_cumprod are in [0, T_train - 1], so that no lookup fails.
C14_InversionIndicesInRange ==
    (/\ entry = "ddim_inversion"
     /\ unet_call.stage = "inversion"
     /\ ~InvalidConfig
     /\ Steps <= T_train)
    => LET t == unet_call.t
           stride == T_train \div Steps
       IN  /\ t \in 0 .. (T_train - 1)
           /\ Max2(0, t - stride) \in 0 .. (T_train - 1)
           /\ result.error # "IndexError"
           /\ latents = Latent("invert", Max2(0, t - stride), t, unet_call.noise_pred)

C16_ClampIffDiverged ==
    (entry \in EditEntries /\ pc \in {"noising", "inversion"})
    => LET exceeds == \E j \in DOMAIN encoded : Abs(encoded[j]) > ClampTrigger
       IN  /\ DOMAIN init_latent_x = DOMAIN encoded
           /\ exceeds =>
                \A j \in DOMAIN encoded :
                   init_latent_x[j] = IF encoded[j] > ClampBound THEN ClampBound
                                      ELSE IF encoded[j] < -ClampBound THEN -ClampBound
                                      ELSE encoded[j]
           /\ ~exceeds => init_latent_x = encoded
           /\ \A j \in DOMAIN init_latent_x : Abs(init_latent_x[j]) <= ClampBound
                                              \/ (~exceeds /\ Abs(init_latent_x[j]) <= ClampTrigger)

\* an encoder output with one element above the trigger, one at the trigger
\* itself, is about to be passed to the inversion
C16_Witness ==
    /\ entry = "edit_audio_with_ddim_inversion_sampling"
    /\ pc = "inversion"
    /\ encoded = <<ClampTrigger, -(ClampTrigger + 1)>>
    /\ init_latent_x = <<ClampBound, -ClampBound>>

=============================================================================
